---- MODULE Spec2Model ----
(***************************************************************************)
(* Quiz session engine of gemini-movie-detectives-api.                     *)
(*                                                                         *)
(*   Spec       main.py: start_quiz / finish_quiz behind the retry         *)
(*              wrapper, run by concurrent worker threads over the shared  *)
(*              session_cache (a TTLCache) and the stats object.           *)
(*   UsageSpec  storage.py: FirestoreClient.update_usage_count, a          *)
(*              transactional read-modify-write of the day's usage         *)
(*              document, run by concurrent callers.                       *)
(*   QuizSpec   quiz/: the start and finish methods of the four quiz       *)
(*              classes, with the profile writes of the finish methods.    *)
(*   LiveSpec   Spec with time going on and every request served.          *)
(*   ProfileSpec  storage.py: get_or_create_user, inc_games, inc_score     *)
(*              run by concurrent callers.                                 *)
(*   RateSpec   main.py: the rate_limit wrapper under concurrent calls.    *)
(*   RetrySpec  main.py: the retry wrapper for every quiz_max_retries.     *)
(*   ParseSpec  gemini.py: parse_gemini_question, parse_gemini_answer.     *)
(*   WikiSpec   wiki.py: WikiClient.get_random_movie_facts.                *)
(*                                                                         *)
(* The clock `now` counts coarse time units; the TTL of 600 s is scaled to *)
(* Ttl units.  The one-second sleep of the retry wrapper is shorter than a *)
(* unit and is modelled as a step of its own (RetrySleep).                 *)
(***************************************************************************)
EXTENDS Integers, Sequences, FiniteSets, TLC

\* ---- bounds of the model ------------------------------------------------
\* number of HTTP requests handled in one behaviour (one per worker slot)
NReq == 3
\* largest value of settings.quiz_max_retries explored (config.py:39 sets 10)
MaxRetries == 2
\* scaled ttl of session_cache (main.py:165 sets 600 seconds)
Ttl == 1
\* scaled maxsize of session_cache (main.py:165 sets 100)
MaxSize == 2
\* last instant of the clock
MaxTime == 2
\* number of concurrent callers of update_usage_count
NCallers == 3
\* largest per-variant daily limit explored
MaxLimit == 2
\* last calendar day explored
MaxDay == 2
\* number of games played through the quiz classes in one behaviour
NPlay == 2
\* number of authenticated players
NUsers == 1
\* scaled number of options of a multiple-choice question (model.py:82-85
\* has option_1..option_4)
NOptions == 2

VARIABLES
    now,            \* time.monotonic(), in units
    session_cache,  \* main.py:165, entries in the order of TTLCache's links:
                    \* least recently stored or read first
    next_id,        \* uuid.uuid4() of start_quiz: ids are never reused
    next_chat,      \* handles returned by gemini_client.start_chat()
    stats,          \* main.py:126
    max_retries,    \* settings.quiz_max_retries
    req,            \* the requests in flight, one per worker slot
    today,          \* datetime.now(pytz.utc).date()
    limits,         \* Firestore document limits/limits
    usage,          \* Firestore documents limits/usage_<day>
    txn,            \* the callers of update_usage_count
    play,           \* the games played through the quiz classes of quiz/
    users,          \* Firestore documents users/<user_id>
    parser,         \* a reply handed to the parsers of gemini.py, and the result
    call_count,     \* main.py:184
    last_reset_time,  \* main.py:185, its date
    limited,        \* the calls of a handler wrapped by rate_limit
    store_calls,    \* the calls of get_or_create_user, inc_games and inc_score
    wrapped,        \* the calls of a function behind the retry wrapper
    wiki            \* the calls of WikiClient.get_random_movie_facts

vars == <<now, session_cache, next_id, next_chat, stats, max_retries, req,
          today, limits, usage, txn, play, users, parser,
          call_count, last_reset_time, limited, store_calls, wrapped, wiki>>

engineVars == <<now, session_cache, next_id, next_chat, stats, max_retries, req>>
usageVars == <<today, limits, usage, txn>>
quizVars == <<play, users>>
rateVars == <<call_count, last_reset_time, limited>>
loopVars == <<wrapped, wiki>>
unitVars == <<parser, rateVars, store_calls, loopVars>>

Req == 1..NReq
Callers == 1..NCallers
Days == 1..MaxDay

\* model.py / main.py QuizType
QuizType == {"title-detectives", "sequel-salad", "bttf-trivia", "trivia"}

\* points a GeminiAnswer may carry (gemini.py:40-42)
Points == {0, 2}

\* ---- session_cache: cachetools.TTLCache(maxsize, ttl) -------------------
NoSession == [quiz_id |-> 0, quiz_data |-> "none", chat |-> 0, started_at |-> 0]

\* SessionData(quiz_id, quiz_data, chat, started_at), main.py:57-62
SessionData(id, data, chat, t) ==
    [quiz_id |-> id, quiz_data |-> data, chat |-> chat, started_at |-> t]

\* index of key k among the entries physically held, 0 if none
CacheIndex(cache, k) ==
    IF \E i \in 1..Len(cache) : cache[i].key = k
    THEN CHOOSE i \in 1..Len(cache) : cache[i].key = k
    ELSE 0

CacheHolds(cache, k) == CacheIndex(cache, k) # 0

\* mutant: membership that forgets the expiry
CacheContains_NoExpiry(cache, k, t) == CacheHolds(cache, k)

\* TTLCache.__contains__: the link exists and timer() < link.expires
CacheContains(cache, k, t) ==
    /\ CacheHolds(cache, k)
    /\ t < cache[CacheIndex(cache, k)].expires

\* session_cache.get(quiz_id): the value, or None
CacheGet(cache, k, t) ==
    IF CacheContains(cache, k, t) THEN cache[CacheIndex(cache, k)].value
    ELSE NoSession

\* TTLCache.__getitem__ of a key that is held: __getlink moves its link to
\* the end of the order popitem evicts from
CacheTouch(cache, k) ==
    IF CacheHolds(cache, k)
    THEN Append(SelectSeq(cache, LAMBDA e : e.key # k), cache[CacheIndex(cache, k)])
    ELSE cache

\* the effect of session_cache.get(quiz_id) on the cache: Cache.get reads
\* self[key] when the key is contained
CacheRead(cache, k, t) ==
    IF CacheContains(cache, k, t) THEN CacheTouch(cache, k) ELSE cache

\* TTLCache.__iter__: the keys that have not expired, in the order of their
\* expiry, which for one ttl is the order they were stored in; the ids grow
\* in that order
CacheKeys(cache, t) == {cache[i].key : i \in {j \in 1..Len(cache) : t < cache[j].expires}}

CacheFirstKey(cache, t) ==
    CHOOSE k \in CacheKeys(cache, t) : \A o \in CacheKeys(cache, t) : k <= o

\* mutant: a delete that leaves the entry in place
CacheRemove_Keeps(cache, k) == cache

\* removal of one key from the entries physically held
CacheRemove(cache, k) ==
    SelectSeq(cache, LAMBDA e : e.key # k)

\* TTLCache.expire(time): drops every entry with expires <= time
CacheExpire(cache, t) ==
    SelectSeq(cache, LAMBDA e : t < e.expires)

\* Cache.__setitem__ under TTLCache: expire, popitem from the head of the
\* links while full, then link the entry at the tail
CacheEvict(cache) ==
    IF Len(cache) >= MaxSize THEN SubSeq(cache, Len(cache) - MaxSize + 2, Len(cache))
    ELSE cache

CacheSet(cache, k, v, t) ==
    Append(CacheEvict(CacheRemove(CacheExpire(cache, t), k)),
           [key |-> k, value |-> v, expires |-> t + Ttl])


\* ---- outcomes of one invocation of a handler ----------------------------
\* kind: "return", "http" (HTTPException), "value_error" (a ValueError that
\* leaves the handler), "error" (any other exception that leaves it)
Return(data, calls) ==
    [kind |-> "return", status |-> 200, detail |-> "", gen_calls |-> calls,
     parse_failures |-> 0, data |-> data]

Http(code, text, calls, parses) ==
    [kind |-> "http", status |-> code, detail |-> text, gen_calls |-> calls,
     parse_failures |-> parses, data |-> "none"]

Raised(k) ==
    [kind |-> k, status |-> 500, detail |-> "unhandled", gen_calls |-> 0,
     parse_failures |-> 0, data |-> "none"]

\* answers of the collaborators, chosen by the environment
TmdbReplies == {"movie", "none", "value_error", "error"}
GeminiReplies == {"ok", "malformed", "api_error"}
SpeechReplies == {"ok", "fail"}

\* the try block of start_title_detectives: get_chat_response,
\* parse_gemini_question (ValueError on a malformed reply), synthesize_to_file;
\* GoogleAPIError and every other exception, the parser's ValueError included,
\* become HTTPException(500)
QuestionTryBlock(gen, speech) ==
    IF gen = "api_error" THEN Http(500, "Google API error", 1, 0)
    ELSE IF gen = "malformed" THEN Http(500, "Internal server error", 1, 1)
    ELSE IF speech = "fail" THEN Http(500, "Internal server error", 1, 0)
    ELSE Return("TitleDetectivesData", 1)

\* start_title_detectives: the movie lookup is outside the try block
start_title_detectives(tmdb, gen, speech) ==
    IF tmdb = "value_error" THEN Raised("value_error")
    ELSE IF tmdb = "error" THEN Raised("error")
    ELSE IF tmdb = "none" THEN Http(404, "No movie found with given criteria", 0, 0)
    ELSE QuestionTryBlock(gen, speech)

\* the match statement of start_quiz; the other three variants are stubs
\* that return {}
Dispatch(qt, tmdb, gen, speech) ==
    IF qt = "title-detectives" THEN start_title_detectives(tmdb, gen, speech)
    ELSE Return("dict", 0)

\* ---- the retry wrapper ---------------------------------------------------
\* mutant: except Exception
RetryCatches_All(kind) == kind # "return"

\* except ValueError
RetryCatches(kind) == kind = "value_error"

\* what the wrapper does with the outcome of invocation number `attempt`
\* (0-based): "return", "retry" (log, sleep(1), next iteration) or "raise"
RetryDecision(kind, attempt, mr) ==
    IF kind = "return" THEN "return"
    ELSE IF RetryCatches(kind) /\ attempt < mr - 1 THEN "retry"
    ELSE "raise"

\* the request record once an invocation has ended with outcome out
Ended(rec, out) ==
    LET d == RetryDecision(out.kind, rec.attempt, max_retries)
        seen == [rec EXCEPT !.gen_calls = @ + out.gen_calls,
                            !.parse_failures = @ + out.parse_failures]
    IN  IF d = "retry"
        THEN [seen EXCEPT !.pc = "sleep", !.attempt = @ + 1]
        ELSE [seen EXCEPT !.pc = "done", !.status = out.status,
                          !.detail = out.detail]

IdleReq ==
    [op |-> "none", pc |-> "idle", quiz_type |-> "none", quiz_id |-> 0,
     attempt |-> 0, gen_calls |-> 0, parse_failures |-> 0, chat |-> 0,
     used_chat |-> 0,
     session |-> NoSession, took |-> FALSE, status |-> 0, detail |-> ""]

\* the handler is (re)entered: a new request (the slots are taken in the order
\* the requests arrive), or the next iteration of the retry loop
Entering(r, op) ==
    \/ req[r].pc = "idle" /\ \A q \in 1..(r - 1) : req[q].pc # "idle"
    \/ req[r].pc = "attempt" /\ req[r].op = op


\* ---- POST /quiz/{quiz_type}: start_quiz --------------------------------
\* mutant: the session is stored before the variant's start function has returned
Stores_Always(out) == TRUE

\* main.py:321-333: the store is reached only when the variant's start
\* function has returned its quiz_data
Stores(out) == out.kind = "return"

\* One invocation of start_quiz by the retry wrapper.  Nothing shared is
\* touched before the store at main.py:328, so the invocation is one step,
\* taken at the instant of the store.  uuid4() and start_chat() return fresh
\* values; those of an invocation that fails are never seen again, so the
\* counters move on only when the session is stored.
StartQuiz(r, qt, tmdb, gen, speech) ==
    /\ Entering(r, "start_quiz")
    /\ req[r].pc = "attempt" => qt = req[r].quiz_type
    /\ LET quiz_id == next_id
           chat == next_chat
           out == Dispatch(qt, tmdb, gen, speech)
           rec == [req[r] EXCEPT !.op = "start_quiz", !.quiz_type = qt]
       IN  IF Stores(out)
           THEN /\ session_cache' =
                     CacheSet(session_cache, quiz_id,
                              SessionData(quiz_id, out.data, chat, now), now)
                /\ stats' = [stats EXCEPT !.quiz_count_total = @ + 1]
                /\ next_id' = next_id + 1
                /\ next_chat' = next_chat + 1
                /\ req' = [req EXCEPT ![r] =
                             Ended([rec EXCEPT !.quiz_id = quiz_id, !.chat = chat],
                                   out)]
           ELSE /\ req' = [req EXCEPT ![r] = Ended(rec, out)]
                /\ UNCHANGED <<session_cache, stats, next_id, next_chat>>
    /\ UNCHANGED <<now, max_retries, usageVars, quizVars, unitVars>>

\* sleep(1) of the retry wrapper, then the next iteration
RetrySleep(r) ==
    /\ req[r].pc = "sleep"
    /\ req' = [req EXCEPT ![r].pc = "attempt"]
    /\ UNCHANGED <<now, session_cache, next_id, next_chat, stats, max_retries,
                   usageVars, quizVars, unitVars>>

\* ---- POST /quiz/{quiz_id}/answer: finish_quiz ---------------------------
\* mutant: the evaluation opens a conversation of its own
SessionChat_New(session_data) == next_chat

\* main.py:283: chat = session_data.chat
SessionChat(session_data) == session_data.chat

\* main.py:274-278: session_cache.get(quiz_id), 404 when it is None
FinishLookup(r, id) ==
    /\ Entering(r, "finish_quiz")
    /\ req[r].pc = "attempt" => id = req[r].quiz_id
    /\ LET session_data == CacheGet(session_cache, id, now)
           rec == [req[r] EXCEPT !.op = "finish_quiz", !.quiz_id = id,
                                 !.session = session_data]
       IN  req' = [req EXCEPT ![r] =
                     IF session_data = NoSession
                     THEN Ended(rec, Http(404, "Session not found", 0, 0))
                     ELSE [rec EXCEPT !.pc = "found",
                                      !.chat = SessionChat(session_data)]]
    /\ session_cache' = CacheRead(session_cache, id, now)
    /\ UNCHANGED <<now, next_id, next_chat, stats, max_retries,
                   usageVars, quizVars, unitVars>>

\* GET /sessions, main.py:248-255: session_cache.values() reads the entries
\* that have not expired in the order of their expiry; session.question of
\* the first one raises AttributeError, SessionData has no such field, so the
\* first entry is the only one read.  The handler is a coroutine and takes
\* no worker slot.
GetSessions ==
    /\ session_cache' =
          IF CacheKeys(session_cache, now) = {} THEN session_cache
          ELSE CacheTouch(session_cache, CacheFirstKey(session_cache, now))
    /\ UNCHANGED <<now, next_id, next_chat, stats, max_retries, req,
                   usageVars, quizVars, unitVars>>

\* mutant: a delete that tolerates a missing key (pop with a default)
DeleteSucceeds_Tolerant(cache, k, t) == TRUE

\* TTLCache.__delitem__ returns normally when the key is held and has not
\* expired; it raises KeyError when the key is not held, and also, after
\* unlinking it, when the entry has expired
DeleteSucceeds(cache, k, t) == CacheContains(cache, k, t)

\* main.py:284: del session_cache[quiz_id], inside the try block: except
\* BaseException turns the KeyError into HTTPException(500)
FinishDelete(r) ==
    /\ req[r].pc = "found"
    /\ LET id == req[r].quiz_id
       IN  /\ session_cache' = CacheRemove(session_cache, id)
           /\ req' = [req EXCEPT ![r] =
                        IF DeleteSucceeds(session_cache, id, now)
                        THEN [@ EXCEPT !.pc = "deleted", !.took = TRUE]
                        ELSE Ended(@, Http(500, "Internal server error", 0, 0))]
    /\ UNCHANGED <<now, next_id, next_chat, stats, max_retries, usageVars, quizVars, unitVars>>

\* main.py:287-302: get_chat_response(chat, prompt) on the chat taken from
\* the session,
\* parse_gemini_answer, stats.points_total, FinishQuizResponse (reads
\* quiz_data.question, which a dict does not have), synthesize_to_file
AnswerTryBlock(gen, speech, data) ==
    IF gen = "api_error" THEN Http(500, "Google API error", 1, 0)
    ELSE IF gen = "malformed" THEN Http(500, "Internal server error", 1, 1)
    ELSE IF data # "TitleDetectivesData" THEN Http(500, "Internal server error", 1, 0)
    ELSE IF speech = "fail" THEN Http(500, "Internal server error", 1, 0)
    ELSE Return("FinishQuizResponse", 1)

FinishEvaluate(r, gen, points, speech) ==
    /\ req[r].pc = "deleted"
    /\ LET out == AnswerTryBlock(gen, speech, req[r].session.quiz_data)
       IN  /\ req' = [req EXCEPT ![r] =
                        Ended([@ EXCEPT !.used_chat = req[r].chat], out)]
           /\ stats' = IF gen = "ok"
                       THEN [stats EXCEPT !.points_total = @ + points]
                       ELSE stats
    /\ UNCHANGED <<now, session_cache, next_id, next_chat, max_retries, usageVars, quizVars, unitVars>>

\* time passes
Tick ==
    /\ now < MaxTime
    /\ now' = now + 1
    /\ UNCHANGED <<session_cache, next_id, next_chat, stats, max_retries, req,
                   usageVars, quizVars, unitVars>>


\* ---- FirestoreClient.update_usage_count ---------------------------------
\* the document limits/usage_<day>; version is Firestore's update time, which
\* a transaction's commit validates against what the transaction read
ZeroCounts == [qt \in QuizType |-> 0]

NoUsageDoc == [exists |-> FALSE, counts |-> ZeroCounts, version |-> 0]

\* the limits documents explored: one ceiling for every variant, a
\* document that has no entry for "trivia", and one that closes
\* "title-detectives"
LimitDocs ==
    {[qt \in QuizType |-> L] : L \in 0..MaxLimit}
        \cup {[qt \in QuizType \ {"trivia"} |-> 1]}
        \cup {[qt \in QuizType |-> IF qt = "title-detectives" THEN 0 ELSE 1]}

\* a caller: its position, the arguments fixed by update_usage_count (variant,
\* day of the document reference), the locals of the current run of
\* _update_usage_count (what it read, the usage dict it queued), and what the
\* call returned or raised
NoLocals == [read_version |-> 0, existed |-> FALSE, counts |-> ZeroCounts]

IdleTxn ==
    [pc |-> "idle", quiz_type |-> "none", day |-> 0,
     locals |-> NoLocals, result |-> 0, error |-> "none",
     err_usage |-> 0, err_limit |-> 0]

\* mutant: one usage document for all days
UsageKey_NoDate(day) == 1

\* storage.py:148-149: the document of a day is limits/usage_<day>
UsageKey(day) == day

\* mutant: the limit test off by one
LimitReached_OffByOne(current_count, limit) == current_count > limit

\* storage.py:169: the limit test on the count that was read
LimitReached(current_count, limit) == current_count >= limit

\* mutant: the usage dict is built anew around the count of the variant
Updated_Fresh(counts, qt) == [ZeroCounts EXCEPT ![qt] = counts[qt] + 1]

\* storage.py:177-178: usage['counts'][quiz_type] = current_count + 1 in the
\* dict that was read
Updated(counts, qt) == [counts EXCEPT ![qt] = @ + 1]

\* the committed count of (day, variant), as get_usage_counts reports it
Count(d, qt) == IF usage[d].exists THEN usage[d].counts[qt] ELSE 0

\* One run of _update_usage_count up to the commit (the callers are numbered
\* in the order of their calls): on the first run
\* update_usage_count has fixed the day's document reference and read the
\* limits; usage_ref.get(transaction) reads the document; a missing limit or
\* a reached limit raises, and firestore.transactional rolls back and
\* re-raises.
UsageRead(u, qt) ==
    /\ \/ txn[u].pc = "idle" /\ \A q \in 1..(u - 1) : txn[q].pc # "idle"
       \/ txn[u].pc = "read" /\ qt = txn[u].quiz_type
    /\ LET d == IF txn[u].pc = "idle" THEN today ELSE txn[u].day
           doc == usage[UsageKey(d)]
           counts == IF doc.exists THEN doc.counts ELSE ZeroCounts
           t == [txn[u] EXCEPT !.quiz_type = qt, !.day = d]
       IN  txn' = [txn EXCEPT ![u] =
                IF qt \notin DOMAIN limits
                THEN [t EXCEPT !.pc = "done", !.error = "ValueError"]
                ELSE IF LimitReached(counts[qt], limits[qt])
                THEN [t EXCEPT !.pc = "done", !.error = "LimitExceededError",
                               !.err_usage = counts[qt],
                               !.err_limit = limits[qt]]
                ELSE [t EXCEPT !.pc = "commit",
                               !.locals =
                                   [read_version |-> doc.version,
                                    existed |-> doc.exists,
                                    counts |-> Updated(counts, qt)]]]
    /\ UNCHANGED <<today, limits, usage, engineVars, quizVars, unitVars>>

\* mutant: a plain read-modify-write, committed whatever was written meanwhile
CommitAccepted_Always(doc, read_version) == TRUE

\* the commit of a transaction is accepted when the document it read has not
\* been written since
CommitAccepted(doc, read_version) == doc.version = read_version

\* The commit of the writes queued by transaction.set: accepted, it writes
\* the whole usage dict (merge=True) and the call returns updated_count;
\* refused, firestore.transactional runs _update_usage_count again.
UsageCommit(u) ==
    /\ txn[u].pc = "commit"
    /\ LET d == UsageKey(txn[u].day)
           l == txn[u].locals
       IN  IF CommitAccepted(usage[d], l.read_version)
           THEN /\ usage' = [usage EXCEPT ![d] =
                        [exists |-> TRUE, counts |-> l.counts,
                         version |-> @.version + 1]]
                /\ txn' = [txn EXCEPT ![u].pc = "done",
                                      ![u].result = l.counts[txn[u].quiz_type],
                                      ![u].locals = NoLocals]
           ELSE /\ txn' = [txn EXCEPT ![u].pc = "read", ![u].locals = NoLocals]
                /\ UNCHANGED usage
    /\ UNCHANGED <<today, limits, engineVars, quizVars, unitVars>>

\* midnight UTC
NextDay ==
    /\ today < MaxDay
    /\ today' = today + 1
    /\ UNCHANGED <<limits, usage, txn, engineVars, quizVars, unitVars>>

\* ---- the quiz classes of quiz/ -------------------------------------------
Plays == 1..NPlay
Users == 1..NUsers
HasOptions == {"bttf-trivia", "trivia"}

\* what the generator replies to a question prompt: a GoogleAPIError, text
\* that is not JSON, or a JSON object; correct_answer 0 stands for an object
\* without that key
QuestionReplies ==
    [kind : {"api_error", "text"}, text : {""}, correct_answer : {0}]
        \cup [kind : {"json"}, text : {"question"}, correct_answer : 0..NOptions]

\* what the generator replies to an answer prompt; points -1 stands for an
\* object without that key
AnswerReplies ==
    [kind : {"api_error", "text"}, points : {-1}, answer : {""}]
        \cup [kind : {"json"}, points : {-1} \cup Points,
              answer : {"feedback"}]

\* the other collaborators
ContentReplies == {"found", "none", "value_error", "error"}
Franchises == {"franchise1", "franchise2"}
ImageReplies == {"ok", "fail"}
AudioReplies == {"audio.mp3", "fail"}
StoreReplies == {"ok", "fail"}

NoQuestion == [text |-> "", correct_answer |-> 0]

\* the union of TitleDetectivesData, SequelSaladData, BttfTriviaData and
\* TriviaData; "none" is a field the variant's type does not have
NoData ==
    [question |-> NoQuestion, movie |-> "none", franchise |-> "none",
     speech |-> "none", poster |-> "none"]

\* mutant: a question model that validates nothing
QuestionValid_Any(qt, reply) == reply.kind # "api_error"

\* _parse_gemini_question: from_json and model_validate succeed when the reply
\* is a JSON object that has every field of the variant's question model
QuestionValid(qt, reply) ==
    /\ reply.kind = "json"
    /\ qt \in HasOptions => reply.correct_answer # 0

\* mutant: the parsed question loses its correct_answer
ParseQuestion_Blank(qt, reply) == [text |-> reply.text, correct_answer |-> 0]

\* the question model built from the reply: the fields of the model are kept
\* as they are, keys the model does not have are dropped
ParseQuestion(qt, reply) ==
    [text |-> reply.text,
     correct_answer |-> IF qt \in HasOptions THEN reply.correct_answer ELSE 0]

\* _parse_gemini_answer: the title-detectives and sequel-salad answer models
\* need points and answer, the two trivia models need answer only
AnswerValid(qt, reply) ==
    /\ reply.kind = "json"
    /\ qt \notin HasOptions => reply.points # -1

\* outcomes of one invocation of a method of a quiz class
QuizReturn(data, prompts) ==
    [kind |-> "return", status |-> 200, detail |-> "", gen_calls |-> 1,
     data |-> data, image_prompts |-> prompts]

QuizHttp(code, text, calls, prompts) ==
    [kind |-> "http", status |-> code, detail |-> text, gen_calls |-> calls,
     data |-> NoData, image_prompts |-> prompts]

QuizRaised(k) ==
    [kind |-> k, status |-> 500, detail |-> "unhandled", gen_calls |-> 0,
     data |-> NoData, image_prompts |-> << >>]

\* ImagenClient.generate_image(prompt, fallback): the prompts tried and the
\* poster; fallback "none" is the default None
generate_image(prompt, fallback, image1, image2) ==
    IF image1 = "ok"
    THEN [poster |-> "poster.png", prompts |-> <<prompt>>]
    ELSE IF fallback # "none"
    THEN [poster |-> IF image2 = "ok" THEN "poster.png" ELSE "none",
          prompts |-> <<prompt, "fallback: " \o fallback>>]
    ELSE [poster |-> "none", prompts |-> <<prompt>>]

\* the part of a start method after the prompt is rendered: get_chat_response,
\* _parse_gemini_question, then the data object with its speech; the handlers
\* at the end of the try block make an HTTPException(500) of every exception
QuestionBlock(qt, base, gen, speech, prompts) ==
    IF gen.kind = "api_error" THEN QuizHttp(500, "Google API error", 1, << >>)
    ELSE IF ~QuestionValid(qt, gen)
    THEN QuizHttp(500, "Internal server error", 1, << >>)
    ELSE IF speech = "fail"
    THEN QuizHttp(500, "Internal server error", 1, prompts)
    ELSE QuizReturn([base EXCEPT !.question = ParseQuestion(qt, gen),
                                 !.speech = speech], prompts)

\* TitleDetectives.start_title_detectives: the movie lookup is outside the try
\* block
TitleDetectivesStart(content, gen, speech) ==
    IF content = "value_error" THEN QuizRaised("value_error")
    ELSE IF content = "error" THEN QuizRaised("error")
    ELSE IF content = "none"
    THEN QuizHttp(404, "No movie found with given criteria", 0, << >>)
    ELSE QuestionBlock("title-detectives", [NoData EXCEPT !.movie = "movie"],
                       gen, speech, << >>)

\* SequelSalad.start_sequel_salad: get_franchises (ValueError when the list is
\* missing or empty) is inside the try block; generate_image is called with
\* the poster prompt only
SequelSaladStart(content, franchise, gen, image1, image2, speech) ==
    IF content # "found" THEN QuizHttp(500, "Internal server error", 0, << >>)
    ELSE LET img == generate_image("poster_prompt", "none", image1, image2)
         IN  QuestionBlock("sequel-salad",
                           [NoData EXCEPT !.franchise = franchise,
                                          !.poster = img.poster],
                           gen, speech, img.prompts)

\* WikiClient.get_random_bttf_facts: ValueError when the search finds no page
get_random_bttf_facts(content) ==
    IF content = "found" THEN "facts"
    ELSE IF content = "error" THEN "error"
    ELSE "value_error"

\* BttfTrivia.start_bttf_trivia: the fact lookup is outside the try block
BttfTriviaStart(content, gen, speech) ==
    IF get_random_bttf_facts(content) # "facts"
    THEN QuizRaised(get_random_bttf_facts(content))
    ELSE QuestionBlock("bttf-trivia", NoData, gen, speech, << >>)

\* WikiClient.get_random_movie_facts: every failure of its attempts ends in a
\* ValueError
get_random_movie_facts(content) ==
    IF content = "found" THEN "facts" ELSE "value_error"

\* Trivia.start_quiz: the fact lookup is outside the try block
TriviaStart(content, gen, speech) ==
    IF get_random_movie_facts(content) # "facts"
    THEN QuizRaised(get_random_movie_facts(content))
    ELSE QuestionBlock("trivia", [NoData EXCEPT !.movie = "movie"],
                       gen, speech, << >>)

\* the start method of the variant's class
VariantStart(qt, content, franchise, gen, image1, image2, speech) ==
    IF qt = "title-detectives" THEN TitleDetectivesStart(content, gen, speech)
    ELSE IF qt = "sequel-salad"
    THEN SequelSaladStart(content, franchise, gen, image1, image2, speech)
    ELSE IF qt = "bttf-trivia" THEN BttfTriviaStart(content, gen, speech)
    ELSE TriviaStart(content, gen, speech)


\* the document users/<user_id> as get_or_create_user writes it
ZeroProfile ==
    [exists |-> TRUE, games |-> ZeroCounts, score |-> ZeroCounts,
     games_total |-> 0, score_total |-> 0]

\* the snapshot of a document that does not exist
NoProfile == [ZeroProfile EXCEPT !.exists = FALSE]

\* model.py:141-144, main.py:337-341: the response carries quiz_data as the
\* start method returned it
StartQuizResponse(quiz_id, qt, quiz_data) ==
    [quiz_id |-> quiz_id, quiz_type |-> qt, quiz_data |-> quiz_data]

NoReply == [kind |-> "none", text |-> "", correct_answer |-> 0]

\* one game: the call of the start method under the retry wrapper, the data
\* and chat held for it, and the call of the finish method
IdlePlay ==
    [pc |-> "idle", op |-> "none", quiz_type |-> "none", attempt |-> 0,
     gen_calls |-> 0, gap |-> FALSE, status |-> 0, detail |-> "",
     chat |-> 0, used_chat |-> 0, quiz_data |-> NoData,
     response |-> StartQuizResponse(0, "none", NoData),
     reply |-> NoReply, audio |-> "none",
     image_failed |-> FALSE, image_prompts |-> << >>,
     answer |-> 0, user_id |-> 0, points |-> 0, feedback |-> "",
     store_failed |-> FALSE, local |-> ZeroProfile]

QuizInit ==
    /\ play = [p \in Plays |-> IdlePlay]
    /\ users = [u \in Users |-> ZeroProfile]

\* One invocation of the variant's start method by the retry wrapper, with
\* the chat opened for this game.  A returned quiz_data is held with the chat
\* for the finish method and goes into the response.
QuizBegin(p, qt, content, franchise, gen, image1, image2, speech) ==
    /\ \/ play[p].pc = "idle" /\ \A q \in 1..(p - 1) : play[q].pc # "idle"
       \/ play[p].pc = "attempt" /\ qt = play[p].quiz_type
    /\ LET out == VariantStart(qt, content, franchise, gen, image1, image2, speech)
           d == RetryDecision(out.kind, play[p].attempt, max_retries)
           rec == [play[p] EXCEPT
                     !.op = "begin", !.quiz_type = qt,
                     !.gen_calls = @ + out.gen_calls,
                     !.gap = @ \/ content = "none",
                     !.image_failed = out.image_prompts # << >> /\ image1 = "fail",
                     !.image_prompts = out.image_prompts]
       IN  play' = [play EXCEPT ![p] =
                IF d = "retry"
                THEN [rec EXCEPT !.pc = "sleep", !.attempt = @ + 1]
                ELSE IF d = "return"
                THEN [rec EXCEPT !.pc = "awaiting", !.status = 200, !.chat = p,
                                 !.quiz_data = out.data,
                                 !.response = StartQuizResponse(p, qt, out.data),
                                 !.reply = gen, !.audio = speech]
                ELSE [rec EXCEPT !.pc = "done", !.status = out.status,
                                 !.detail = out.detail]]
    /\ UNCHANGED <<users, max_retries, now, session_cache, next_id, next_chat,
                   stats, req, usageVars, unitVars>>

\* sleep(1) of the retry wrapper
QuizRetrySleep(p) ==
    /\ play[p].pc = "sleep"
    /\ play' = [play EXCEPT ![p].pc = "attempt"]
    /\ UNCHANGED <<users, engineVars, usageVars, unitVars>>

\* mutant: a point for every answer
TriviaPoints_Always(answer, correct_answer) == 3

\* bttf_trivia.py:67, trivia.py:59,68: 3 if the index is the correct one else 0
TriviaPoints(answer, correct_answer) ==
    IF answer = correct_answer THEN 3 ELSE 0

\* the points of a result: computed for the two trivia variants, the
\* generator's judgment for the other two
AwardedPoints(qt, answer, quiz_data, gen) ==
    IF qt \in HasOptions
    THEN TriviaPoints(answer, quiz_data.question.correct_answer)
    ELSE gen.points

\* trivia.py:60: getattr(quiz_data.question, f'option_{answer}') raises
\* AttributeError for an index that is no option
OptionExists(qt, answer) == qt = "trivia" => answer \in 1..NOptions

\* finish_title_detectives takes no user_id and never calls inc_games or
\* inc_score; the other three call them when user_id is set
RecordsProfile(qt, user_id) == user_id # 0 /\ qt # "title-detectives"

\* mutant: inc_games without the increment of games_total
IncGames_NoTotal(user_data, qt) == [user_data EXCEPT !.games[qt] = @ + 1]

\* storage.py:87-93: the increments of inc_games on the dict that was read
IncGames(user_data, qt) ==
    [user_data EXCEPT !.games[qt] = @ + 1, !.games_total = @ + 1]

\* storage.py:106-112: the increments of inc_score on the dict that was read
IncScore(user_data, qt, points) ==
    [user_data EXCEPT !.score[qt] = @ + points, !.score_total = @ + points]

\* mutant: an error of the profile write leaves inc_games / inc_score
StoreErrorCaught_Never(store) == store = "ok"

\* storage.py:95-96, 114-115: except Exception logs the error and returns
StoreErrorCaught(store) == TRUE

\* the result object and its speech at the end of the finish method
QuizRespond(rec, speech) ==
    IF speech = "fail"
    THEN [rec EXCEPT !.pc = "done", !.status = 500,
                     !.detail = "Internal server error", !.audio = "fail"]
    ELSE [rec EXCEPT !.pc = "done", !.status = 200, !.detail = "",
                     !.audio = speech]

\* a finish method whose profile write raised: the exception reaches the
\* handlers at the end of the try block
QuizStoreFailed(rec) ==
    [rec EXCEPT !.pc = "done", !.status = 500, !.detail = "Internal server error"]

\* The finish method of the variant's class on the data and chat held for the
\* game, up to the read of inc_games: the answer prompt, get_chat_response on
\* the chat, _parse_gemini_answer, the points.  Without a profile to record to
\* the method goes on to its result.  What the record kept of the start
\* method's call, apart from the data and the chat, is dropped.
QuizEvaluate(p, answer, user, gen, store, speech) ==
    /\ play[p].pc = "awaiting"
    /\ LET qt == play[p].quiz_type
           rec == [IdlePlay EXCEPT !.op = "complete", !.quiz_type = qt,
                                   !.chat = play[p].chat,
                                   !.quiz_data = play[p].quiz_data,
                                   !.answer = answer, !.user_id = user]
           called == [rec EXCEPT !.gen_calls = @ + 1, !.used_chat = rec.chat]
           scored == [called EXCEPT
                        !.points = AwardedPoints(qt, answer, rec.quiz_data, gen),
                        !.feedback = gen.answer]
       IN  play' = [play EXCEPT ![p] =
                IF ~OptionExists(qt, answer)
                THEN [rec EXCEPT !.pc = "done", !.status = 500,
                                 !.detail = "Internal server error"]
                ELSE IF gen.kind = "api_error"
                THEN [called EXCEPT !.pc = "done", !.status = 500,
                                    !.detail = "Google API error"]
                ELSE IF ~AnswerValid(qt, gen)
                THEN [called EXCEPT !.pc = "done", !.status = 500,
                                    !.detail = "Internal server error"]
                ELSE IF ~RecordsProfile(qt, user) THEN QuizRespond(scored, speech)
                ELSE IF store = "ok"
                THEN [scored EXCEPT !.pc = "inc_games", !.local = users[user]]
                ELSE IF StoreErrorCaught(store)
                THEN [scored EXCEPT !.pc = "inc_score", !.store_failed = TRUE]
                ELSE QuizStoreFailed([scored EXCEPT !.store_failed = TRUE])]
    /\ UNCHANGED <<users, engineVars, usageVars, unitVars>>

\* inc_games: user_ref.update(user_data) with the dict that was read
QuizIncGamesUpdate(p, store) ==
    /\ play[p].pc = "inc_games"
    /\ users' = IF store = "ok"
                THEN [users EXCEPT ![play[p].user_id] =
                         IncGames(play[p].local, play[p].quiz_type)]
                ELSE users
    /\ play' = [play EXCEPT ![p] =
                  LET rec == [@ EXCEPT !.local = ZeroProfile,
                                       !.store_failed = @ \/ store = "fail"]
                  IN  IF store = "ok" \/ StoreErrorCaught(store)
                      THEN [rec EXCEPT !.pc = "inc_score"]
                      ELSE QuizStoreFailed(rec)]
    /\ UNCHANGED <<engineVars, usageVars, unitVars>>

\* inc_score: user_ref.get(); when it fails the method goes on to its result
QuizIncScoreRead(p, store, speech) ==
    /\ play[p].pc = "inc_score"
    /\ play' = [play EXCEPT ![p] =
                  IF store = "ok"
                  THEN [@ EXCEPT !.pc = "score_update",
                                 !.local = users[play[p].user_id]]
                  ELSE IF StoreErrorCaught(store)
                  THEN QuizRespond([@ EXCEPT !.store_failed = TRUE], speech)
                  ELSE QuizStoreFailed([@ EXCEPT !.store_failed = TRUE])]
    /\ UNCHANGED <<users, engineVars, usageVars, unitVars>>

\* inc_score: user_ref.update(user_data), then the result of the finish method
QuizIncScoreUpdate(p, store, speech) ==
    /\ play[p].pc = "score_update"
    /\ users' = IF store = "ok"
                THEN [users EXCEPT ![play[p].user_id] =
                         IncScore(play[p].local, play[p].quiz_type,
                                  play[p].points)]
                ELSE users
    /\ play' = [play EXCEPT ![p] =
                  LET rec == [@ EXCEPT !.local = ZeroProfile,
                                       !.store_failed = @ \/ store = "fail"]
                  IN  IF store = "ok" \/ StoreErrorCaught(store)
                      THEN QuizRespond(rec, speech)
                      ELSE QuizStoreFailed(rec)]
    /\ UNCHANGED <<engineVars, usageVars, unitVars>>

\* the franchise list and the image generator matter to sequel-salad only
FranchisesFor(qt) == IF qt = "sequel-salad" THEN Franchises ELSE {"none"}

ImagesFor(qt) == IF qt = "sequel-salad" THEN ImageReplies ELSE {"ok"}

\* the answers a player may submit: an option index, or one outside 1..NOptions,
\* for the trivia variants; 0 stands for the free text of the other two
Answers(qt) == IF qt \in HasOptions THEN 0..(NOptions + 1) ELSE {0}

\* ---- the reply parsers of gemini.py --------------------------------------
\* A reply is text in one of two formats that carries labelled values: lines
\* of the form "<label>: <text>", or a JSON object whose members are the
\* labels with their texts.
QuestionLabels ==
    {<<"Question", "Hint1", "Hint2">>,
     <<"Meine Frage ist", "Der erste Hinweis", "Zweiter Hinweis">>,
     <<"question", "hint1", "hint2">>}

AnswerLabels == {<<"Points", "Answer">>, <<"points", "answer">>}

Texts == {"Fi_m", "You got it right!"}

Numerals == {"0", "4711"}

ReplyFormats == {"lines", "json"}

QuestionTexts ==
    {[format |-> f, labels |-> l, texts |-> <<a, b, c>>] :
        f \in ReplyFormats, l \in QuestionLabels, a \in Texts, b \in Texts,
        c \in Texts}

AnswerTexts ==
    {[format |-> f, labels |-> l, texts |-> <<n, a>>] :
        f \in ReplyFormats, l \in AnswerLabels, n \in Numerals \cup Texts,
        a \in Texts}

\* pydantic_core.from_json: the object, when the text is JSON
IsJson(gemini_reply) == gemini_reply.format = "json"

\* the member of the JSON object named key, "" when there is none
Member(gemini_reply, key) ==
    IF \E i \in 1..Len(gemini_reply.labels) : gemini_reply.labels[i] = key
    THEN gemini_reply.texts[CHOOSE i \in 1..Len(gemini_reply.labels) :
                                gemini_reply.labels[i] = key]
    ELSE ""

HasMember(gemini_reply, key) ==
    \E i \in 1..Len(gemini_reply.labels) : gemini_reply.labels[i] = key

\* the int pydantic makes of a member that is a number
ToInt(text) == IF text = "4711" THEN 4711 ELSE 0

ParseError == [kind |-> "ValueError"]

\* gemini.py:67-74: GeminiQuestion.model_validate(from_json(gemini_reply));
\* every exception of the two becomes ValueError
parse_gemini_question(gemini_reply) ==
    IF /\ IsJson(gemini_reply)
       /\ \A key \in {"question", "hint1", "hint2"} : HasMember(gemini_reply, key)
    THEN [kind |-> "GeminiQuestion",
          question |-> Member(gemini_reply, "question"),
          hint1 |-> Member(gemini_reply, "hint1"),
          hint2 |-> Member(gemini_reply, "hint2")]
    ELSE ParseError

\* gemini.py:76-83: GeminiAnswer.model_validate(from_json(gemini_reply))
parse_gemini_answer(gemini_reply) ==
    IF /\ IsJson(gemini_reply)
       /\ HasMember(gemini_reply, "points")
       /\ HasMember(gemini_reply, "answer")
       /\ Member(gemini_reply, "points") \in Numerals
    THEN [kind |-> "GeminiAnswer",
          points |-> ToInt(Member(gemini_reply, "points")),
          answer |-> Member(gemini_reply, "answer")]
    ELSE ParseError

NotParsed == [kind |-> "none"]

\* no reply is being parsed
ParserIdle ==
    [gemini_reply |-> [format |-> "none", labels |-> << >>, texts |-> << >>],
     result |-> NotParsed]

\* a call of parse_gemini_question
ParseQuestionReply ==
    /\ parser.result = NotParsed
    /\ parser.gemini_reply \in QuestionTexts
    /\ parser' = [parser EXCEPT !.result = parse_gemini_question(parser.gemini_reply)]
    /\ UNCHANGED <<engineVars, usageVars, quizVars, rateVars, store_calls,
                   loopVars>>

\* a call of parse_gemini_answer
ParseAnswerReply ==
    /\ parser.result = NotParsed
    /\ parser.gemini_reply \in AnswerTexts
    /\ parser' = [parser EXCEPT !.result = parse_gemini_answer(parser.gemini_reply)]
    /\ UNCHANGED <<engineVars, usageVars, quizVars, rateVars, store_calls,
                   loopVars>>

\* ---- the rate_limit wrapper of main.py -----------------------------------
\* settings.quiz_rate_limit, scaled (config.py:38 sets 200)
quiz_rate_limit == MaxLimit

\* a call through the wrapper: its position, the value of call_count it has
\* loaded for the increment, and the day its call reached the wrapped function
IdleCall == [pc |-> "idle", loaded |-> 0, status |-> 0, passed_on |-> 0]

\* main.py:205: datetime.now().date() > last_reset_time.date()
RateDayCheck(c) ==
    /\ limited[c].pc = "idle"
    /\ \A q \in 1..(c - 1) : limited[q].pc # "idle"
    /\ limited' = [limited EXCEPT ![c].pc =
                      IF today > last_reset_time THEN "reset" ELSE "check"]
    /\ UNCHANGED <<call_count, last_reset_time, parser, store_calls, loopVars,
                   engineVars, usageVars, quizVars>>

\* main.py:206-207: call_count = 0, last_reset_time = datetime.now()
RateReset(c) ==
    /\ limited[c].pc = "reset"
    /\ call_count' = 0
    /\ last_reset_time' = today
    /\ limited' = [limited EXCEPT ![c].pc = "check"]
    /\ UNCHANGED <<parser, store_calls, loopVars, engineVars, usageVars, quizVars>>

\* main.py:209-210: HTTPException(400) when call_count >= quiz_rate_limit
RateCheck(c) ==
    /\ limited[c].pc = "check"
    /\ limited' = [limited EXCEPT ![c] =
                      IF call_count >= quiz_rate_limit
                      THEN [@ EXCEPT !.pc = "done", !.status = 400]
                      ELSE [@ EXCEPT !.pc = "load"]]
    /\ UNCHANGED <<call_count, last_reset_time, parser, store_calls, loopVars,
                   engineVars, usageVars, quizVars>>

\* main.py:212: call_count += 1, the read of the global
RateLoad(c) ==
    /\ limited[c].pc = "load"
    /\ limited' = [limited EXCEPT ![c].pc = "store", ![c].loaded = call_count]
    /\ UNCHANGED <<call_count, last_reset_time, parser, store_calls, loopVars,
                   engineVars, usageVars, quizVars>>

\* main.py:212-213: the write of the global, then func(*args, **kwargs)
RateStore(c) ==
    /\ limited[c].pc = "store"
    /\ call_count' = limited[c].loaded + 1
    /\ limited' = [limited EXCEPT ![c] =
                      [@ EXCEPT !.pc = "done", !.status = 200, !.loaded = 0,
                                !.passed_on = today]]
    /\ UNCHANGED <<last_reset_time, parser, store_calls, loopVars, engineVars,
                   usageVars, quizVars>>

RateInit ==
    /\ call_count = 0
    /\ last_reset_time = 1
    /\ limited = [c \in Callers |-> IdleCall]

\* ---- the profile methods of FirestoreClient ------------------------------
\* the points a finish method may pass to inc_score
ScorePoints == Points \cup {3}

IdleStoreCall ==
    [pc |-> "idle", op |-> "none", user_id |-> 0, quiz_type |-> "none",
     points |-> 0, local |-> NoProfile, wrote |-> FALSE]

\* a call begins: the callers are numbered in the order of their calls
StoreCallBegins(c) ==
    /\ store_calls[c].pc = "idle"
    /\ \A q \in 1..(c - 1) : store_calls[q].pc # "idle"

\* storage.py:36-40: user_ref.get(); an existing document is returned
GetOrCreateRead(c, u) ==
    /\ StoreCallBegins(c)
    /\ store_calls' = [store_calls EXCEPT ![c] =
                    [@ EXCEPT !.op = "get_or_create_user", !.user_id = u,
                              !.pc = IF users[u].exists THEN "done" ELSE "set"]]
    /\ UNCHANGED <<users, play, parser, rateVars, loopVars, engineVars,
                   usageVars>>

\* storage.py:42-63: user_ref.set(user_data) with every counter 0
GetOrCreateSet(c) ==
    /\ store_calls[c].pc = "set"
    /\ users' = [users EXCEPT ![store_calls[c].user_id] = ZeroProfile]
    /\ store_calls' = [store_calls EXCEPT ![c].pc = "done", ![c].wrote = TRUE]
    /\ UNCHANGED <<play, parser, rateVars, loopVars, engineVars, usageVars>>

\* storage.py:81-85, 100-104: user_ref.get() of inc_games (points 0) or
\* inc_score; nothing more is done when the read fails or the document does
\* not exist
IncRead(c, op, u, qt, points, store) ==
    /\ StoreCallBegins(c)
    /\ op = "inc_games" => points = 0
    /\ store_calls' = [store_calls EXCEPT ![c] =
                    LET rec == [@ EXCEPT !.op = op, !.user_id = u,
                                         !.quiz_type = qt, !.points = points]
                    IN  IF store = "ok" /\ users[u].exists
                        THEN [rec EXCEPT !.pc = "update", !.local = users[u]]
                        ELSE [rec EXCEPT !.pc = "done"]]
    /\ UNCHANGED <<users, play, parser, rateVars, loopVars, engineVars,
                   usageVars>>

\* storage.py:87-94, 106-113: the increments on the dict that was read, and
\* user_ref.update(user_data), which writes every field of the dict; an error
\* of the write is logged
IncUpdate(c, store) ==
    /\ store_calls[c].pc = "update"
    /\ users' = IF store = "fail" THEN users
                ELSE [users EXCEPT ![store_calls[c].user_id] =
                        IF store_calls[c].op = "inc_games"
                        THEN IncGames(store_calls[c].local, store_calls[c].quiz_type)
                        ELSE IncScore(store_calls[c].local,
                                      store_calls[c].quiz_type,
                                      store_calls[c].points)]
    /\ store_calls' = [store_calls EXCEPT ![c].pc = "done",
                                          ![c].local = NoProfile,
                                          ![c].wrote = (store = "ok")]
    /\ UNCHANGED <<play, parser, rateVars, loopVars, engineVars, usageVars>>

\* ---- the retry wrapper on its own -----------------------------------------
\* how a call of the wrapped function ends
FuncOutcomes == {"return", "value_error", "error"}

\* a call of the wrapper: the loop variable, the invocations of func so far,
\* and how the wrapper ended: "returned" (the result of func), "raised" (the
\* exception of func) or "none" (the end of the wrapper was reached)
IdleWrapped == [pc |-> "idle", attempt |-> 0, invoked |-> 0, outcome |-> "pending"]

\* main.py:222: for _ in range(max_retries); when the range is used up the
\* wrapper reaches its end and returns None
WrapLoop(r) ==
    /\ wrapped[r].pc \in {"idle", "next"}
    /\ wrapped' = [wrapped EXCEPT ![r] =
                      IF @.attempt < max_retries
                      THEN [@ EXCEPT !.pc = "call"]
                      ELSE [@ EXCEPT !.pc = "done", !.outcome = "none"]]
    /\ UNCHANGED <<wiki, parser, rateVars, store_calls, engineVars, usageVars,
                   quizVars>>

\* main.py:223-231: return func(*args, **kwargs); a ValueError is logged and,
\* on the last iteration, raised again; any other exception leaves the wrapper
WrapInvoke(r, kind) ==
    /\ wrapped[r].pc = "call"
    /\ wrapped' = [wrapped EXCEPT ![r] =
                      LET d == RetryDecision(kind, @.attempt, max_retries)
                          rec == [@ EXCEPT !.invoked = @ + 1]
                      IN  IF d = "return"
                          THEN [rec EXCEPT !.pc = "done", !.outcome = "returned"]
                          ELSE IF d = "retry" THEN [rec EXCEPT !.pc = "sleep"]
                          ELSE [rec EXCEPT !.pc = "done", !.outcome = "raised"]]
    /\ UNCHANGED <<wiki, parser, rateVars, store_calls, engineVars, usageVars,
                   quizVars>>

\* main.py:229: sleep(1), then the next value of the range
WrapSleep(r) ==
    /\ wrapped[r].pc = "sleep"
    /\ wrapped' = [wrapped EXCEPT ![r].pc = "next", ![r].attempt = @ + 1]
    /\ UNCHANGED <<wiki, parser, rateVars, store_calls, engineVars, usageVars,
                   quizVars>>

\* ---- WikiClient.get_random_movie_facts -----------------------------------
\* wiki.py:18
MAX_RETRIES == 5

\* what one attempt meets: a page, no page for the title (ValueError), or an
\* exception of tmdb_client or of the wikipedia package
WikiReplies == {"found", "no_page", "error"}

IdleLookup ==
    [pc |-> "idle", retries |-> 0, attempts |-> 0, sleeps |-> 0,
     result |-> "pending"]

\* mutant: the test that gives up is off by one
GivesUp_Late(retries) == retries > MAX_RETRIES

\* wiki.py:49: if retries >= self.MAX_RETRIES
GivesUp(retries) == retries >= MAX_RETRIES

\* wiki.py:26-27: retries = 0 at the call, then while retries < MAX_RETRIES;
\* when the test fails the method reaches its end and returns None
WikiLoop(p) ==
    /\ wiki[p].pc \in {"idle", "loop"}
    /\ wiki[p].pc = "idle" => \A q \in 1..(p - 1) : wiki[q].pc # "idle"
    /\ wiki' = [wiki EXCEPT ![p] =
                   IF @.retries < MAX_RETRIES
                   THEN [@ EXCEPT !.pc = "try"]
                   ELSE [@ EXCEPT !.pc = "done", !.result = "None"]]
    /\ UNCHANGED <<wrapped, parser, rateVars, store_calls, engineVars, usageVars,
                   quizVars>>

\* wiki.py:28-50: one attempt; MovieFacts is returned, or except BaseException
\* counts the failure and raises ValueError when it gives up
WikiTry(p, reply) ==
    /\ wiki[p].pc = "try"
    /\ wiki' = [wiki EXCEPT ![p] =
                   LET rec == [@ EXCEPT !.attempts = @ + 1]
                       failed == [rec EXCEPT !.retries = @ + 1]
                   IN  IF reply = "found"
                       THEN [rec EXCEPT !.pc = "done", !.result = "MovieFacts"]
                       ELSE IF GivesUp(failed.retries)
                       THEN [failed EXCEPT !.pc = "done", !.result = "ValueError"]
                       ELSE [failed EXCEPT !.pc = "sleep"]]
    /\ UNCHANGED <<wrapped, parser, rateVars, store_calls, engineVars, usageVars,
                   quizVars>>

\* wiki.py:51: sleep(self.RETRY_DELAY), then the test of the loop again
WikiSleep(p) ==
    /\ wiki[p].pc = "sleep"
    /\ wiki' = [wiki EXCEPT ![p].pc = "loop", ![p].sleeps = @ + 1]
    /\ UNCHANGED <<wrapped, parser, rateVars, store_calls, engineVars, usageVars,
                   quizVars>>

LoopInit ==
    /\ wrapped = [r \in Req |-> IdleWrapped]
    /\ wiki = [p \in Plays |-> IdleLookup]

UnitInit ==
    /\ parser = ParserIdle
    /\ RateInit
    /\ store_calls = [c \in Callers |-> IdleStoreCall]
    /\ LoopInit

\* ---- specifications -----------------------------------------------------
EngineInit ==
    /\ now = 0
    /\ session_cache = << >>
    /\ next_id = 1
    /\ next_chat = 1
    /\ stats = [quiz_count_total |-> 0, points_total |-> 0]
    /\ req = [r \in Req |-> IdleReq]

UsageInit ==
    /\ today = 1
    /\ txn = [u \in Callers |-> IdleTxn]

\* the usage document of the day when every variant has been played up to
\* its limit
Exhausted(lim) ==
    [exists |-> TRUE,
     counts |-> [qt \in QuizType |-> IF qt \in DOMAIN lim THEN lim[qt] ELSE 0],
     version |-> 1]

\* the engine after start-up: no session, no usage recorded
Init ==
    /\ EngineInit
    /\ UsageInit
    /\ QuizInit
    /\ UnitInit
    /\ max_retries = MaxRetries
    /\ limits = [qt \in QuizType |-> MaxLimit]
    /\ usage = [d \in Days |-> NoUsageDoc]

\* the engine on a day whose quota update_usage_count has used up
QuotaInit ==
    /\ EngineInit
    /\ UsageInit
    /\ QuizInit
    /\ UnitInit
    /\ max_retries = MaxRetries
    /\ limits = [qt \in QuizType |-> MaxLimit]
    /\ usage = [d \in Days |-> IF d = today THEN Exhausted(limits) ELSE NoUsageDoc]

Next ==
    \/ \E r \in Req, qt \in QuizType, tmdb \in TmdbReplies,
          gen \in GeminiReplies, speech \in SpeechReplies :
          StartQuiz(r, qt, tmdb, gen, speech)
    \/ \E r \in Req : RetrySleep(r)
    \/ \E r \in Req, id \in 0..(next_id - 1) : FinishLookup(r, id)
    \/ \E r \in Req : FinishDelete(r)
    \/ \E r \in Req, gen \in GeminiReplies, points \in Points,
          speech \in SpeechReplies : FinishEvaluate(r, gen, points, speech)
    \/ GetSessions
    \/ Tick

Spec == Init /\ [][Next]_vars

QuotaSpec == QuotaInit /\ [][Next]_vars

\* the usage limiter under concurrent callers, from an empty usage collection
UsageSpecInit ==
    /\ EngineInit
    /\ UsageInit
    /\ QuizInit
    /\ UnitInit
    /\ max_retries = 1
    /\ limits \in LimitDocs
    /\ usage = [d \in Days |-> NoUsageDoc]

UsageNext ==
    \/ \E u \in Callers, qt \in QuizType : UsageRead(u, qt)
    \/ \E u \in Callers : UsageCommit(u)
    \/ NextDay

UsageSpec == UsageSpecInit /\ [][UsageNext]_vars

\* the steps of a request that a worker has taken up: the worker goes on
\* with it until the handler has ended
InFlight(r) ==
    /\ req[r].pc \notin {"idle", "done"}
    /\ \/ \E qt \in QuizType, tmdb \in TmdbReplies, gen \in GeminiReplies,
             speech \in SpeechReplies : StartQuiz(r, qt, tmdb, gen, speech)
       \/ RetrySleep(r)
       \/ \E id \in 0..(next_id - 1) : FinishLookup(r, id)
       \/ FinishDelete(r)
       \/ \E gen \in GeminiReplies, points \in Points, speech \in SpeechReplies :
             FinishEvaluate(r, gen, points, speech)

\* the engine when time goes on and every request taken up is served to its
\* end; whether further requests arrive is up to the clients
LiveSpec ==
    /\ Init
    /\ [][Next]_vars
    /\ WF_vars(Tick)
    /\ \A r \in Req : WF_vars(InFlight(r))

\* games played through the quiz classes by callers with and without a profile
QuizNext ==
    \/ \E p \in Plays :
          /\ play[p].pc \in {"idle", "attempt"}
          /\ \E qt \in QuizType, content \in ContentReplies,
                gen \in QuestionReplies, speech \in AudioReplies :
                \E franchise \in FranchisesFor(qt), image1 \in ImagesFor(qt),
                   image2 \in ImagesFor(qt) :
                   QuizBegin(p, qt, content, franchise, gen, image1, image2, speech)
    \/ \E p \in Plays : QuizRetrySleep(p)
    \/ \E p \in Plays :
          /\ play[p].pc = "awaiting"
          /\ \E answer \in Answers(play[p].quiz_type), user \in {0} \cup Users,
                gen \in AnswerReplies, store \in StoreReplies,
                speech \in AudioReplies :
                QuizEvaluate(p, answer, user, gen, store, speech)
    \/ \E p \in Plays, store \in StoreReplies : QuizIncGamesUpdate(p, store)
    \/ \E p \in Plays, store \in StoreReplies, speech \in AudioReplies :
          QuizIncScoreRead(p, store, speech)
    \/ \E p \in Plays, store \in StoreReplies, speech \in AudioReplies :
          QuizIncScoreUpdate(p, store, speech)

QuizSpec == Init /\ [][QuizNext]_vars


\* the parsers of gemini.py on the replies of both formats
ParseInit ==
    /\ EngineInit
    /\ UsageInit
    /\ QuizInit
    /\ max_retries = 1
    /\ limits = [qt \in QuizType |-> MaxLimit]
    /\ usage = [d \in Days |-> NoUsageDoc]
    /\ parser \in [gemini_reply : QuestionTexts \cup AnswerTexts,
                   result : {NotParsed}]
    /\ RateInit
    /\ store_calls = [c \in Callers |-> IdleStoreCall]
    /\ LoopInit

ParseNext ==
    \/ ParseQuestionReply
    \/ ParseAnswerReply

ParseSpec == ParseInit /\ [][ParseNext]_vars

\* concurrent calls of a handler behind rate_limit, over the days
RateNext ==
    \/ \E c \in Callers : RateDayCheck(c)
    \/ \E c \in Callers : RateReset(c)
    \/ \E c \in Callers : RateCheck(c)
    \/ \E c \in Callers : RateLoad(c)
    \/ \E c \in Callers : RateStore(c)
    \/ NextDay

RateSpec == Init /\ [][RateNext]_vars

\* concurrent calls of the profile methods for users with and without a
\* profile document
ProfileInit ==
    /\ EngineInit
    /\ UsageInit
    /\ UnitInit
    /\ max_retries = 1
    /\ limits = [qt \in QuizType |-> MaxLimit]
    /\ usage = [d \in Days |-> NoUsageDoc]
    /\ play = [p \in Plays |-> IdlePlay]
    /\ users \in [Users -> {NoProfile, ZeroProfile}]

ProfileNext ==
    \/ \E c \in Callers, u \in Users : GetOrCreateRead(c, u)
    \/ \E c \in Callers : GetOrCreateSet(c)
    \/ \E c \in Callers :
          /\ store_calls[c].pc = "idle"
          /\ \E op \in {"inc_games", "inc_score"}, u \in Users, qt \in QuizType,
                points \in ScorePoints, store \in StoreReplies :
                IncRead(c, op, u, qt, points, store)
    \/ \E c \in Callers, store \in StoreReplies : IncUpdate(c, store)

ProfileSpec == ProfileInit /\ [][ProfileNext]_vars

\* calls through the retry wrapper for every configured number of retries
RetryInit ==
    /\ EngineInit
    /\ UsageInit
    /\ QuizInit
    /\ UnitInit
    /\ max_retries \in 0..MaxRetries
    /\ limits = [qt \in QuizType |-> MaxLimit]
    /\ usage = [d \in Days |-> NoUsageDoc]

RetryNext ==
    \/ \E r \in Req : WrapLoop(r)
    \/ \E r \in Req, kind \in FuncOutcomes : WrapInvoke(r, kind)
    \/ \E r \in Req : WrapSleep(r)

RetrySpec == RetryInit /\ [][RetryNext]_vars

\* the lookups of movie facts, each carried on until it ends
WikiNext ==
    \/ \E p \in Plays : WikiLoop(p)
    \/ \E p \in Plays, reply \in WikiReplies : WikiTry(p, reply)
    \/ \E p \in Plays : WikiSleep(p)

WikiStep(p) ==
    \/ wiki[p].pc # "idle" /\ WikiLoop(p)
    \/ \E reply \in WikiReplies : WikiTry(p, reply)
    \/ WikiSleep(p)

WikiSpec ==
    /\ Init
    /\ [][WikiNext]_vars
    /\ \A p \in Plays : WF_vars(WikiStep(p))

\* ---- properties ---------------------------------------------------------
StartReqs == {r \in Req : req[r].op = "start_quiz"}
FinishReqs == {r \in Req : req[r].op = "finish_quiz"}

\* the step is finish_quiz's lookup of id by request r
LooksUp(r, id) ==
    /\ req[r].pc \in {"idle", "attempt"}
    /\ req'[r].op = "finish_quiz"
    /\ req'[r].pc # req[r].pc
    /\ req'[r].quiz_id = id

\* the step is one invocation of start_quiz by request r
Begins(r) ==
    /\ req[r].pc \in {"idle", "attempt"}
    /\ req'[r].op = "start_quiz"
    /\ req'[r].pc # req[r].pc

\* request r has ended with "Session not found" and never called the generator
NotFound(rec) ==
    /\ rec.pc = "done"
    /\ rec.status = 404
    /\ rec.detail = "Session not found"
    /\ rec.gen_calls = 0

\* some finish_quiz call has got past del session_cache[id]
Consumed(id) == \E q \in FinishReqs : req[q].quiz_id = id /\ req[q].took

\* C1: once a finish_quiz call has found and deleted the session of an id,
\* every finish_quiz call that looks the id up afterwards ends at once with
\* 404 "Session not found" and without a generator call.
C1_ExactlyOnce ==
    [][\A r \in Req, id \in 1..(next_id - 1) :
          Consumed(id) /\ LooksUp(r, id) => NotFound(req'[r])]_vars

C1_Witness ==
    \E q \in FinishReqs, r \in FinishReqs :
        /\ q # r
        /\ req[q].took
        /\ req[q].status = 200
        /\ req[r].quiz_id = req[q].quiz_id
        /\ NotFound(req[r])

\* C2: under every interleaving of finish_quiz calls, at most one call per
\* session id gets past the lookup and the delete and so reaches the
\* evaluation of the answer.
C2_SingleTake ==
    \A id \in 1..(next_id - 1) :
        Cardinality({r \in FinishReqs : req[r].quiz_id = id /\ req[r].took}) <= 1

\* two calls have both found the session; one took it, the other lost the delete
C2_Witness ==
    \E q \in FinishReqs, r \in FinishReqs :
        /\ q # r
        /\ req[q].quiz_id = req[r].quiz_id
        /\ req[q].took
        /\ req[r].session # NoSession
        /\ req[r].pc = "done"
        /\ ~req[r].took

\* C5: a lookup of a session made Ttl or more after its store finds nothing
\* and ends with 404, also while the store still holds the entry.
C5_ExpiredAbsent ==
    [][\A r \in Req, id \in 1..(next_id - 1) :
          (/\ LooksUp(r, id)
           /\ \A i \in 1..Len(session_cache) :
                 session_cache[i].key = id =>
                     now >= session_cache[i].value.started_at + Ttl)
          => NotFound(req'[r])]_vars

\* an entry is still held past its expiry and a lookup of it has answered 404
C5_Witness ==
    \E r \in FinishReqs, i \in 1..Len(session_cache) :
        /\ session_cache[i].key = req[r].quiz_id
        /\ now > session_cache[i].value.started_at + Ttl
        /\ NotFound(req[r])

\* C7: an invocation of start_quiz that does not return a response leaves
\* session_cache as it was, and every session held was stored by an
\* invocation that returned 200 for that id.
C7_NoLeakedSession ==
    [][/\ \A r \in Req :
             Begins(r) /\ ~(req'[r].pc = "done" /\ req'[r].status = 200)
             => session_cache' = session_cache
       /\ \A i \in 1..Len(session_cache') :
             \E r \in Req :
                 /\ req'[r].op = "start_quiz"
                 /\ req'[r].pc = "done"
                 /\ req'[r].status = 200
                 /\ req'[r].quiz_id = session_cache'[i].key]_vars

\* a start_quiz has failed after its retry while a session was in the store
C7_Witness ==
    \E r \in StartReqs :
        /\ req[r].pc = "done"
        /\ req[r].status = 500
        /\ req[r].gen_calls = 1
        /\ Len(session_cache) >= 1

C9_ParseFailureRetried ==
    \A r \in Req :
        (/\ req[r].pc = "done"
         /\ req[r].parse_failures >= 1
         /\ req[r].parse_failures = req[r].gen_calls)
        => req[r].gen_calls = max_retries

C13_AbsentIsNotFound ==
    \A r \in FinishReqs :
        (req[r].pc = "done" /\ ~req[r].took) => req[r].status = 404

\* C15: the chat on which finish_quiz calls the generator is the chat stored
\* with the session by the start_quiz that created it, and the chat of no
\* other session.
C15_SameConversation ==
    \A r \in FinishReqs :
        req[r].gen_calls >= 1
        => /\ \E q \in StartReqs :
                 /\ req[q].status = 200
                 /\ req[q].quiz_id = req[r].quiz_id
                 /\ req[q].chat = req[r].used_chat
           /\ \A q \in StartReqs :
                 (req[q].status = 200 /\ req[q].quiz_id # req[r].quiz_id)
                 => req[q].chat # req[r].used_chat

\* two sessions were started and the answer of the second has been evaluated
C15_Witness ==
    \E r \in FinishReqs, q \in StartReqs :
        /\ req[r].status = 200
        /\ req[r].quiz_id = 2
        /\ req[q].status = 200
        /\ req[q].quiz_id = 1

\* today's quota of variant qt is used up
QuotaExhausted(qt) == Count(today, qt) >= limits[qt]

\* C6 (as claimed): a start_quiz for a variant whose quota is used up makes
\* no generator call, stores no session and is not retried.
C6_QuotaFailsFast ==
    \A r \in StartReqs :
        QuotaExhausted(req[r].quiz_type)
        => /\ req[r].gen_calls = 0
           /\ req[r].attempt = 0
           /\ ~CacheHolds(session_cache, req[r].quiz_id)
           /\ req[r].pc = "done" => req[r].status # 200


\* ---- properties of the usage limiter ------------------------------------
\* the calls for (day, variant) that have ended, returned a count, were refused
DoneOn(d, qt) ==
    {u \in Callers : txn[u].pc = "done" /\ txn[u].day = d /\ txn[u].quiz_type = qt}

Succeeded(d, qt) == {u \in DoneOn(d, qt) : txn[u].error = "none"}

Refused(d, qt) == {u \in DoneOn(d, qt) : txn[u].error = "LimitExceededError"}

\* no call for (day, variant) is between its read and the end of its commit
Quiescent(d, qt) ==
    \A u \in Callers :
        (txn[u].day = d /\ txn[u].quiz_type = qt) => txn[u].pc = "done"

\* C3: from a zero counter the calls that succeed for a (variant, day) have
\* returned exactly 1..count, each once and never more than the limit L, and a
\* call is refused only once L calls have succeeded, with usage = L, limit = L.
C3_CountsToLimit ==
    \A d \in Days, qt \in DOMAIN limits :
        /\ {txn[u].result : u \in Succeeded(d, qt)} = 1..Count(d, qt)
        /\ Cardinality(Succeeded(d, qt)) = Count(d, qt)
        /\ Count(d, qt) <= limits[qt]
        /\ \A u \in Refused(d, qt) :
              /\ txn[u].err_usage = limits[qt]
              /\ txn[u].err_limit = limits[qt]
              /\ Cardinality(Succeeded(d, qt)) = limits[qt]

\* with L = MaxLimit: L calls have succeeded and the next one was refused
C3_Witness ==
    \E d \in Days, qt \in DOMAIN limits :
        /\ limits[qt] = MaxLimit
        /\ Cardinality(Succeeded(d, qt)) = MaxLimit
        /\ Refused(d, qt) # {}

\* the calls that were given the last slot of (day, variant)
Winners(d, qt) == {u \in Succeeded(d, qt) : txn[u].result = limits[qt]}

\* C4: the committed count never exceeds the limit, the last slot is never
\* given to two callers, and once the callers racing for a (variant, day)
\* with limit L >= 1 are all through and they were at least L, exactly one got
\* the last slot, L succeeded and every other one got LimitExceededError.
C4_LastSlotOnce ==
    \A d \in Days, qt \in DOMAIN limits :
        /\ Count(d, qt) <= limits[qt]
        /\ Cardinality(Winners(d, qt)) <= 1
        /\ (/\ Quiescent(d, qt)
            /\ limits[qt] >= 1
            /\ Cardinality(DoneOn(d, qt)) >= limits[qt])
           => /\ Cardinality(Winners(d, qt)) = 1
              /\ Cardinality(Succeeded(d, qt)) = limits[qt]
              /\ DoneOn(d, qt) = Succeeded(d, qt) \cup Refused(d, qt)

\* two callers raced for the last slot: one commit was accepted and the call
\* returned the limit, the other caller's commit was refused and its run of
\* _update_usage_count is about to start again
C4_Witness ==
    \E d \in Days, qt \in DOMAIN limits, w \in Callers, u \in Callers :
        /\ w \in Winners(d, qt)
        /\ txn[u].pc = "read"
        /\ txn[u].day = d
        /\ txn[u].quiz_type = qt

\* the count of (day, variant) in the usage documents us
CountIn(us, d, qt) == IF us[d].exists THEN us[d].counts[qt] ELSE 0

\* C26: the commit that ends a successful call raises the count of the call's
\* variant on the call's day (the date update_usage_count read when it was
\* called) by exactly 1, returns that count, and leaves the count of every
\* other variant and every document of another day as it was; a call that
\* ends with LimitExceededError leaves every usage document as it was, a
\* missing one missing.
C26_FrameOfUpdate ==
    [][\A u \in Callers :
          LET d == UsageKey(txn'[u].day)
              qt == txn'[u].quiz_type
          IN  /\ (txn[u].pc = "commit" /\ txn'[u].pc = "done")
                 => /\ CountIn(usage', d, qt) = CountIn(usage, d, qt) + 1
                    /\ txn'[u].result = CountIn(usage', d, qt)
                    /\ \A q \in QuizType \ {qt} :
                          CountIn(usage', d, q) = CountIn(usage, d, q)
                    /\ \A e \in Days \ {d} : usage'[e] = usage[e]
              /\ (/\ txn[u].pc # "done"
                  /\ txn'[u].pc = "done"
                  /\ txn'[u].error = "LimitExceededError")
                 => usage' = usage]_vars

\* a call has raised its variant's count on a day on which another variant
\* had been counted, and a call was refused on a day that has no usage
\* document
C26_Witness ==
    \E u \in Callers, w \in Callers :
        /\ txn[u].pc = "done" /\ txn[u].error = "none"
        /\ \E q \in QuizType \ {txn[u].quiz_type} : Count(txn[u].day, q) >= 1
        /\ txn[w].pc = "done" /\ txn[w].error = "LimitExceededError"
        /\ ~usage[UsageKey(txn[w].day)].exists

\* ---- properties of the quiz classes --------------------------------------
\* the start method of game p has returned its data
BeginReturned(p) == play[p].op = "begin" /\ play[p].pc = "awaiting"

\* the finish method of game p has ended
Completed(p) == play[p].op = "complete" /\ play[p].pc = "done"

\* no finish method is between its profile reads and writes
ProfilesQuiet ==
    \A p \in Plays : play[p].pc \notin {"inc_games", "inc_score", "score_update"}

\* the field of quiz_data that holds the reference answer of the variant is set
ShowsReference(qt, quiz_data) ==
    IF qt = "title-detectives" THEN quiz_data.movie # "none"
    ELSE IF qt = "sequel-salad" THEN quiz_data.franchise # "none"
    ELSE quiz_data.question.correct_answer # 0

RECURSIVE SumPoints(_)
SumPoints(S) ==
    IF S = {} THEN 0
    ELSE LET p == CHOOSE q \in S : TRUE
         IN  play[p].points + SumPoints(S \ {p})

\* C11 (as claimed): a start call that found no movie, franchise or fact
\* source ends with 404, and is not run again by the retry wrapper.
C11_ContentUnavailable ==
    \A p \in Plays :
        (play[p].op = "begin" /\ play[p].gap)
        => (play[p].pc = "done" /\ play[p].status = 404)

\* C12 (as claimed): the quiz_data of the response to a start call does not
\* hold the reference answer of the variant.
C12_NoReferenceInPayload ==
    \A p \in Plays :
        BeginReturned(p)
        => ~ShowsReference(play[p].quiz_type, play[p].response.quiz_data)

\* C14: a finish call of bttf-trivia or trivia that returns a result has
\* points 3 when the submitted index is the stored correct_answer and 0 when
\* it is not, and its feedback is the reply to one generator call on the chat
\* of the game.
C14_IndexScoring ==
    \A p \in Plays :
        (Completed(p) /\ play[p].status = 200 /\ play[p].quiz_type \in HasOptions)
        => /\ play[p].answer = play[p].quiz_data.question.correct_answer
                => play[p].points = 3
           /\ play[p].answer # play[p].quiz_data.question.correct_answer
                => play[p].points = 0
           /\ play[p].feedback = "feedback"
           /\ play[p].gen_calls = 1
           /\ play[p].used_chat = play[p].chat

\* one game was answered with the correct index and one with a wrong one
C14_Witness ==
    \E p \in Plays, q \in Plays :
        /\ Completed(p) /\ play[p].status = 200
        /\ play[p].quiz_type = "bttf-trivia" /\ play[p].points = 3
        /\ Completed(q) /\ play[q].status = 200
        /\ play[q].quiz_type = "trivia" /\ play[q].points = 0
        /\ play[q].answer \in 1..NOptions

\* C16 (as claimed): when no profile write is under way, the profile of every
\* player holds at least one game and the awarded points for each of the
\* player's finish calls that returned a result, and no profile has changed
\* when every finish call was unauthenticated.
C16_ProfileRecorded ==
    ProfilesQuiet
    => /\ \A u \in Users, qt \in QuizType :
             LET S == {p \in Plays : /\ Completed(p)
                                     /\ play[p].status = 200
                                     /\ play[p].user_id = u
                                     /\ play[p].quiz_type = qt}
             IN  /\ users[u].games[qt] >= Cardinality(S)
                 /\ users[u].score[qt] >= SumPoints(S)
       /\ (\A p \in Plays : play[p].user_id = 0)
             => users = [u \in Users |-> ZeroProfile]

\* C17: a finish call in which a read or write of the profile failed, and
\* whose speech synthesis did not fail, returns its scored result.
C17_ProfileFailureTolerated ==
    \A p \in Plays :
        (Completed(p) /\ play[p].store_failed /\ play[p].audio # "fail")
        => /\ play[p].status = 200
           /\ play[p].feedback = "feedback"
           /\ play[p].quiz_type \in HasOptions
                => play[p].points \in {0, 3}

\* a bttf-trivia answer was scored 3 and returned although the profile could
\* not be written
C17_Witness ==
    \E p \in Plays :
        /\ Completed(p)
        /\ play[p].store_failed
        /\ play[p].status = 200
        /\ play[p].points = 3
        /\ users[play[p].user_id] = ZeroProfile

\* C18 (as claimed): a sequel-salad start call whose image generation with the
\* poster prompt failed has tried a second prompt, the fallback that names
\* the franchise.
C18_FallbackTried ==
    \A p \in Plays :
        (BeginReturned(p) /\ play[p].image_failed)
        => /\ Len(play[p].image_prompts) = 2
           /\ play[p].image_prompts[2] = "fallback: " \o play[p].quiz_data.franchise

\* C19: a start call that returned has called the generator once, the reply
\* was well-formed, the question of the response has the fields of the reply
\* and the speech of the response is what the speech synthesis returned.
C19_SingleGeneration ==
    \A p \in Plays :
        BeginReturned(p)
        => /\ play[p].gen_calls = 1
           /\ play[p].reply.kind = "json"
           /\ play[p].response.quiz_data.question.text = play[p].reply.text
           /\ play[p].quiz_type \in HasOptions
                => play[p].response.quiz_data.question.correct_answer
                       = play[p].reply.correct_answer
           /\ play[p].audio # "fail"
           /\ play[p].response.quiz_data.speech = play[p].audio

\* the second invocation of bttf-trivia by the wrapper has returned a question
\* whose correct option is the last one, and sequel-salad has returned one
C19_Witness ==
    \E p \in Plays, q \in Plays :
        /\ BeginReturned(p)
        /\ play[p].quiz_type = "bttf-trivia"
        /\ play[p].attempt = 1
        /\ play[p].reply.correct_answer = NOptions
        /\ BeginReturned(q)
        /\ play[q].quiz_type = "sequel-salad"

\* C20: whatever the counts of earlier days, a day without a usage document
\* reports 0 for every variant, the call whose commit creates the day's
\* document returns 1, and a call is refused only when the count of its own
\* day has reached the limit.
C20_FreshDay ==
    \A d \in Days, qt \in DOMAIN limits :
        /\ ~usage[d].exists => Count(d, qt) = 0 /\ Succeeded(d, qt) = {}
        /\ Succeeded(d, qt) # {} => \E u \in Succeeded(d, qt) : txn[u].result = 1
        /\ Refused(d, qt) # {} => Count(d, qt) >= limits[qt]
        /\ \A u \in Succeeded(d, qt) : txn[u].result <= Count(d, qt)

\* a variant was exhausted on the first day and a call of the second day
\* returned 1
C20_Witness ==
    \E qt \in DOMAIN limits, u \in Callers :
        /\ limits[qt] >= 1
        /\ Count(1, qt) = limits[qt]
        /\ Refused(1, qt) # {}
        /\ u \in Succeeded(2, qt)
        /\ txn[u].result = 1

\* ---- independence of the variants ----------------------------------------
\* C21 (as claimed): the commit of a call of update_usage_count is refused,
\* and its transaction run again, only when the count of the call's own
\* variant has been written since the call read it.
C21_VariantsIndependent ==
    [][\A u \in Callers :
          (txn[u].pc = "commit" /\ txn'[u].pc = "read")
          => Count(UsageKey(txn[u].day), txn[u].quiz_type)
                 # txn[u].locals.counts[txn[u].quiz_type] - 1]_vars

\* ---- eviction and expiry of sessions -------------------------------------
\* the ids of the sessions physically held
HeldIds == {session_cache[i].key : i \in 1..Len(session_cache)}

\* the session stored earliest among those held: ids are handed out in the
\* order of the stores
Oldest == CHOOSE k \in HeldIds : \A o \in HeldIds : k <= o

\* C22 (as claimed): a store into a full session_cache none of whose entries
\* has expired removes the entry that was stored earliest, and no other one,
\* whichever entries have been read since.
C22_EvictsEarliest ==
    [][(/\ next_id' = next_id + 1
        /\ Len(session_cache) = MaxSize
        /\ \A i \in 1..Len(session_cache) : now < session_cache[i].expires)
       => /\ ~CacheHolds(session_cache', Oldest)
          /\ \A k \in HeldIds \ {Oldest} : CacheHolds(session_cache', k)]_vars

\* C23 (as claimed): a session that is held after its ttl has elapsed is
\* eventually removed from session_cache, whether or not a request names it.
C23_ExpiredRemoved ==
    \A id \in 1..NReq :
        (CacheHolds(session_cache, id) /\ ~CacheContains(session_cache, id, now))
        ~> ~CacheHolds(session_cache, id)

\* ---- properties of the parsers -------------------------------------------
\* C24 (as claimed): parse_gemini_question of a reply of three lines
\* "<label>: <text>" returns the three texts as question, hint1 and hint2
\* whatever the labels, and parse_gemini_answer of the lines "Points: <n>" and
\* "Answer: <text>" returns points n and answer text.
C24_LinesParsed ==
    LET r == parser.gemini_reply
    IN  (parser.result # NotParsed /\ r.format = "lines")
        => /\ r \in QuestionTexts
                => parser.result = [kind |-> "GeminiQuestion",
                                    question |-> r.texts[1],
                                    hint1 |-> r.texts[2],
                                    hint2 |-> r.texts[3]]
           /\ (r \in AnswerTexts /\ r.labels = <<"Points", "Answer">>
                                 /\ r.texts[1] \in Numerals)
                => parser.result = [kind |-> "GeminiAnswer",
                                    points |-> ToInt(r.texts[1]),
                                    answer |-> r.texts[2]]

\* ---- properties of the rate_limit wrapper --------------------------------
\* the calls that reached the wrapped function on day d
PassedOn(d) == {c \in Callers : limited[c].passed_on = d}

\* C25 (as claimed): call_count never exceeds quiz_rate_limit, and on no day
\* do more than quiz_rate_limit calls reach the wrapped function.
C25_CountWithinLimit ==
    /\ call_count <= quiz_rate_limit
    /\ \A d \in Days : Cardinality(PassedOn(d)) <= quiz_rate_limit

\* ---- properties of the profile methods -----------------------------------
\* the calls of op for user u that have ended and whose update was written
Written(op, u) ==
    {c \in Callers : /\ store_calls[c].pc = "done" /\ store_calls[c].op = op
                     /\ store_calls[c].user_id = u /\ store_calls[c].wrote}

RECURSIVE SumScore(_)
SumScore(S) ==
    IF S = {} THEN 0
    ELSE LET c == CHOOSE q \in S : TRUE
         IN  store_calls[c].points + SumScore(S \ {c})

\* no call of a profile method is under way, every call found the document
\* and no read or write failed
AllWritten ==
    \A c \in Callers :
        /\ store_calls[c].pc \in {"idle", "done"}
        /\ store_calls[c].op \in {"none", "inc_games", "inc_score"}
        /\ store_calls[c].op # "none" => store_calls[c].wrote

\* C27 (as claimed): once the inc_games and inc_score calls for a user are
\* through, games_total is the number of the inc_games calls and score_total
\* the sum of the points of the inc_score calls.
C27_NoLostIncrement ==
    AllWritten
    => \A u \in Users :
          users[u].exists
          => /\ users[u].games_total = Cardinality(Written("inc_games", u))
             /\ users[u].score_total = SumScore(Written("inc_score", u))

\* the sum of the four per-variant counters
Total(counts) ==
    counts["title-detectives"] + counts["sequel-salad"]
        + counts["bttf-trivia"] + counts["trivia"]

\* C28: in every state of a profile document games_total is the sum of the
\* four per-variant games counters and score_total the sum of the four
\* per-variant score counters.
C28_TotalsAreSums ==
    \A u \in Users :
        users[u].exists
        => /\ users[u].games_total = Total(users[u].games)
           /\ users[u].score_total = Total(users[u].score)

\* get_or_create_user has created the document, an inc_games call has
\* written its increment, and an inc_score call that had read the document
\* before has overwritten it: the games counters are back at 0, the score
\* counters hold the points
C28_Witness ==
    \E u \in Users, g \in Callers :
      \E c \in Written("inc_games", u), d \in Written("inc_score", u) :
        /\ store_calls[g].op = "get_or_create_user" /\ store_calls[g].wrote
        /\ users[u].games_total = 0
        /\ users[u].score_total = store_calls[d].points
        /\ store_calls[d].points >= 2

\* ---- properties of the retry wrapper and of the fact lookup --------------
\* C29 (as claimed): whatever max_retries is, a call of the wrapper that has
\* ended has invoked the wrapped function at least once and has returned its
\* result or raised its exception.
C29_AlwaysInvoked ==
    \A r \in Req :
        wrapped[r].pc = "done"
        => /\ wrapped[r].invoked >= 1
           /\ wrapped[r].outcome \in {"returned", "raised"}

\* C30: a call of get_random_movie_facts makes at most MAX_RETRIES attempts
\* and ends; it returns MovieFacts from the first attempt that succeeds,
\* having slept once after each failed attempt before it, and it raises
\* ValueError when attempt number MAX_RETRIES has failed, without a sleep
\* after that attempt.
C30_BoundedLookup ==
    /\ [](\A p \in Plays :
            /\ wiki[p].attempts <= MAX_RETRIES
            /\ wiki[p].pc = "done" => wiki[p].result \in {"MovieFacts", "ValueError"}
            /\ wiki[p].result = "MovieFacts"
                 => /\ wiki[p].attempts = wiki[p].retries + 1
                    /\ wiki[p].sleeps = wiki[p].retries
            /\ wiki[p].result = "ValueError"
                 => /\ wiki[p].attempts = MAX_RETRIES
                    /\ wiki[p].retries = MAX_RETRIES
                    /\ wiki[p].sleeps = MAX_RETRIES - 1)
    /\ \A p \in Plays : (wiki[p].pc # "idle") ~> (wiki[p].pc = "done")

\* one lookup has returned the facts at its last attempt, after
\* MAX_RETRIES - 1 sleeps, and one has raised ValueError
C30_Witness ==
    \E p \in Plays, q \in Plays :
        /\ wiki[p].result = "MovieFacts"
        /\ wiki[p].attempts = MAX_RETRIES
        /\ wiki[p].sleeps = MAX_RETRIES - 1
        /\ wiki[q].result = "ValueError"

====
